---- MODULE Spec2Model ----
(***************************************************************************)
(* Model of the decoding engine of anlg/run_generation.py                  *)
(* (top_k_top_p_filtering, sample_sequence) and of the metric aggregator   *)
(* of anlg/evaluation/eval.py (QGEvalCap.evaluate).                        *)
(*                                                                         *)
(* Numbers.  A logit is a real number; the model draws logits from the     *)
(* set { n * ln 2 : n an integer } and represents the logit n * ln 2 by    *)
(* the integer n.  Order and equality of logits are those of the           *)
(* integers, exp(n * ln 2) = 2^n is exact, and so the softmax of a vector  *)
(* is the exact rational vector Weight / Total.  Negative infinity is the  *)
(* integer NegInf, below every logit.  top_p is given in hundredths        *)
(* (top_p = 0.9 is 90), so cumulative_probs > top_p is                     *)
(* cum * 100 > top_p * total.                                              *)
(***************************************************************************)
EXTENDS Integers, Sequences, FiniteSets, TLC

VARIABLES
    \* ---- sample_sequence (run_generation.py:129-176) ----
    pc,            \* position in sample_sequence
    args,          \* the arguments of the call
    generated,     \* the tensor `generated`: a sequence of rows
    comet,         \* the locals comet_input and comet_mask: <<>> for None, <<t>> for a tensor t
    inputs,        \* the dict `inputs` of the current step (empty before the first)
    modelCalls,    \* how many times model(**inputs) has been invoked
    outputs,       \* outputs[0][0, -1, :] of the last model call
    next_token_logits,
    filtered_logits,
    next_token,
    steps,         \* completed loop iterations
    prev,          \* `generated` as it was before the last completed iteration
    err,           \* the statement that raised, or None
    result,        \* what the call returned, once pc = "done"
    \* ---- top_k_top_p_filtering called on its own (run_generation.py:98-126) ----
    f_logits, f_top_k, f_top_p, f_sorted_indices, f_removed, f_out, f_calls,
    \* ---- QGEvalCap.evaluate (eval.py:24-55) ----
    e_pc,          \* position in evaluate
    e_idx,         \* index of the next scorer of the for loop
    e_outcomes,    \* per scorer called so far: "ok" or "raised"
    scores_dict, output,
    results_file,  \* the lines of the results file
    e_returned     \* <<>>, or <<v>> once evaluate has returned v

sampler_vars == <<pc, args, generated, comet, inputs, modelCalls, outputs,
                  next_token_logits, filtered_logits, next_token, steps, prev,
                  err, result>>
filter_vars == <<f_logits, f_top_k, f_top_p, f_sorted_indices, f_removed, f_out, f_calls>>
eval_vars == <<e_pc, e_idx, e_outcomes, scores_dict, output, results_file, e_returned>>
vars == <<sampler_vars, filter_vars, eval_vars>>

None == "None"

(***************************************************************************)
(* Bounds.                                                                 *)
(***************************************************************************)
\* the score vectors given to the filter on its own have 1..MaxVocab entries,
MaxVocab == 3
\* each in 0..MaxScore
MaxScore == 2
\* the scoring model of sample_sequence has VocabSize vocabulary ids
VocabSize == 2
\* and returns logits in 0..MaxLogit
MaxLogit == 1
\* sample_sequence: length in 0..MaxLength
MaxLength == 2
\* context of 0..MaxContext tokens
MaxContext == 1
\* num_samples in -1..MaxSamples
MaxSamples == 2
\* evaluate: how many lines the results file may already hold
MaxPriorLines == 1

\* filter_value = -float("Inf")
NegInf == -1000
\* the results of dividing by a zero temperature
PosInf == 1000
NaN == 2000

(***************************************************************************)
(* Helpers on sequences.                                                   *)
(***************************************************************************)
Range(s) == {s[i] : i \in DOMAIN s}

Min2(a, b) == IF a < b THEN a ELSE b

MaxOf(s) == CHOOSE x \in Range(s) : \A y \in Range(s) : y <= x

RemoveAt(s, i) == [j \in 1..(Len(s) - 1) |-> IF j < i THEN s[j] ELSE s[j + 1]]

RECURSIVE Pow2(_)
Pow2(n) == IF n <= 0 THEN 1 ELSE 2 * Pow2(n - 1)

RECURSIVE SumTo(_, _)
SumTo(s, j) == IF j = 0 THEN 0 ELSE s[j] + SumTo(s, j - 1)

Perms(n) == {p \in [1..n -> 1..n] : \A a, b \in 1..n : a # b => p[a] # p[b]}

(***************************************************************************)
(* top_k_top_p_filtering                                                   *)
(***************************************************************************)
\* torch.topk(logits, k)[0]: the k largest values, largest first
RECURSIVE topk(_, _)
topk(logits, k) ==
    IF k = 0 THEN <<>>
    ELSE LET i == CHOOSE i \in DOMAIN logits : logits[i] = MaxOf(logits)
         IN  <<logits[i]>> \o topk(RemoveAt(logits, i), k - 1)

\* a wrong threshold: the value after the last of the top k (an index one too far)
KthLargestOffByOne(logits, k) ==
    LET j == Min2(k + 1, Len(logits)) IN topk(logits, j)[j]

\* torch.topk(logits, top_k)[0][..., -1, None]
KthLargest(logits, k) == topk(logits, k)[k]

\* the top-k stage entered only from top_k = 2 on
TopKStageSkipsOne(logits, top_k) ==
    LET k == Min2(top_k, Len(logits))
    IN  IF k > 1
        THEN [i \in DOMAIN logits |->
                 IF logits[i] < topk(logits, k)[k] THEN NegInf ELSE logits[i]]
        ELSE logits

\* lines 108-112: the top-k stage, on the tensor in place
TopKStage(logits, top_k) ==
    LET k == Min2(top_k, Len(logits))
    IN  IF k > 0
        THEN [i \in DOMAIN logits |->
                 IF logits[i] < KthLargest(logits, k) THEN NegInf ELSE logits[i]]
        ELSE logits

\* torch.sort(logits, descending=True)[1]: every order of the indices that is
\* descending in the values; the order among equal values is not specified
SortedIndices(logits) ==
    {p \in Perms(Len(logits)) :
        \A j \in 1..(Len(logits) - 1) : logits[p[j]] >= logits[p[j + 1]]}

\* the smallest finite entry (softmax is invariant under a common shift)
Floor(logits) ==
    LET fin == {x \in Range(logits) : x # NegInf}
    IN  IF fin = {} THEN 0 ELSE CHOOSE x \in fin : \A y \in fin : x <= y

\* F.softmax numerators: exp of each entry, exp(-inf) = 0
Weight(logits) ==
    [i \in DOMAIN logits |->
        IF logits[i] = NegInf THEN 0 ELSE Pow2(logits[i] - Floor(logits))]

\* torch.cumsum(F.softmax(sorted_logits)): numerators; the denominator is Total
cumulative_probs(logits, sorted_indices) ==
    LET w == Weight(logits)
        sw == [j \in DOMAIN logits |-> w[sorted_indices[j]]]
    IN  [j \in DOMAIN logits |-> SumTo(sw, j)]

Total(logits) == SumTo(Weight(logits), Len(logits))

\* line 119 without the shift of lines 121-122
SortedRemoveNoShift(logits, top_p, sorted_indices) ==
    LET cum == cumulative_probs(logits, sorted_indices)
    IN  [j \in DOMAIN logits |-> cum[j] * 100 > top_p * Total(logits)]

\* line 119 with >= in place of >
SortedRemoveGeq(logits, top_p, sorted_indices) ==
    LET cum == cumulative_probs(logits, sorted_indices)
        above == [j \in DOMAIN logits |-> cum[j] * 100 >= top_p * Total(logits)]
    IN  [j \in DOMAIN logits |-> IF j = 1 THEN FALSE ELSE above[j - 1]]

\* lines 119-122: sorted_indices_to_remove
sorted_indices_to_remove(logits, top_p, sorted_indices) ==
    LET cum == cumulative_probs(logits, sorted_indices)
        above == [j \in DOMAIN logits |-> cum[j] * 100 > top_p * Total(logits)]
    IN  [j \in DOMAIN logits |-> IF j = 1 THEN FALSE ELSE above[j - 1]]

\* line 124: indices_to_remove = sorted_indices[sorted_indices_to_remove]
indices_to_remove(logits, top_p, sorted_indices) ==
    {sorted_indices[j] : j \in {j \in DOMAIN logits :
        sorted_indices_to_remove(logits, top_p, sorted_indices)[j]}}

\* lines 114-125: the nucleus stage, on the tensor in place
TopPStage(logits, top_p, sorted_indices) ==
    IF top_p > 0
    THEN [i \in DOMAIN logits |->
             IF i \in indices_to_remove(logits, top_p, sorted_indices)
             THEN NegInf ELSE logits[i]]
    ELSE logits

\* the nucleus stage entered also when top_p = 0
FilteringGuardGeq(logits, top_k, top_p, sorted_indices) ==
    LET l == TopKStage(logits, top_k)
        order == IF top_p > 0 THEN sorted_indices ELSE CHOOSE p \in SortedIndices(l) : TRUE
    IN  [i \in DOMAIN l |->
            IF i \in indices_to_remove(l, top_p, order) THEN NegInf ELSE l[i]]

\* lines 98-126; sorted_indices is the outcome of the sort of line 115
top_k_top_p_filtering(logits, top_k, top_p, sorted_indices) ==
    TopPStage(TopKStage(logits, top_k), top_p, sorted_indices)

\* the outcomes line 115 can have for a call; the sort does not run when top_p = 0
SortOutcomes(logits, top_k, top_p) ==
    IF top_p > 0 THEN SortedIndices(TopKStage(logits, top_k)) ELSE {<<>>}

(***************************************************************************)
(* The filter called on its own.                                           *)
(***************************************************************************)
ScoreVectors == UNION {[1..n -> 0..MaxScore] : n \in 1..MaxVocab}
TopKs == 0..(MaxVocab + 1)
TopPs == {0, 1, 50, 90, 100}

\* no call of the filter on its own is under way
FilterIdle ==
    /\ f_logits = <<>>
    /\ f_top_k = 0
    /\ f_top_p = 0
    /\ f_sorted_indices = <<>>
    /\ f_removed = {}
    /\ f_out = <<>>
    /\ f_calls = 0

\* the call: the arguments are bound, nothing has run
FilterInit ==
    /\ f_logits \in ScoreVectors
    /\ f_top_k \in TopKs
    /\ f_top_p \in TopPs
    /\ f_sorted_indices = <<>>
    /\ f_removed = {}
    /\ f_out = <<>>
    /\ f_calls = 0

\* lines 107-126, run to the return
FilterCall ==
    /\ f_calls = 0
    /\ \E sorted_indices \in SortOutcomes(f_logits, f_top_k, f_top_p) :
        /\ f_sorted_indices' = sorted_indices
        /\ f_removed' = IF f_top_p > 0
                        THEN indices_to_remove(TopKStage(f_logits, f_top_k), f_top_p,
                                               sorted_indices)
                        ELSE {}
        /\ f_out' = top_k_top_p_filtering(f_logits, f_top_k, f_top_p, sorted_indices)
    /\ f_calls' = 1
    /\ UNCHANGED <<f_logits, f_top_k, f_top_p>>

(***************************************************************************)
(* sample_sequence                                                         *)
(***************************************************************************)
\* the auxiliary conditioning a caller may supply (one event, two positions)
CometInput == <<<<1, 0>>>>
CometMask == <<<<1, 0>>>>

\* contexts of the first and the last vocabulary id
Contexts == UNION {[1..n -> {0, VocabSize - 1}] : n \in 0..MaxContext}
Temperatures == {-1, 0, 1}
SamplerTopKs == {0, 1}
SamplerTopPs == {0, 50}
ModelLogits == [1..VocabSize -> 0..MaxLogit]

\* x.unsqueeze(0).repeat(num_samples, 1): num_samples copies of x as rows
Replicate(x, num_samples) == [r \in 1..num_samples |-> x]

\* a mask that hides the last ROW instead of the last column
PermMaskLastRow(S) ==
    [r \in 1..S |-> [c \in 1..S |-> IF r = S THEN 1 ELSE 0]]

\* lines 163-164: perm_mask[0], zeros with perm_mask[:, :, -1] = 1.0
PermMask(S) ==
    [r \in 1..S |-> [c \in 1..S |-> IF c = S THEN 1 ELSE 0]]

\* lines 165-166: target_mapping[0, 0], zeros with target_mapping[0, 0, -1] = 1.0
TargetMapping(S) == [c \in 1..S |-> IF c = S THEN 1 ELSE 0]

\* lines 155-158: the dict of the causal mode
CausalInputs(gen, cond) ==
    IF cond.comet_input # <<>>
    THEN [input_ids |-> gen, comet_input |-> cond.comet_input[1],
          comet_mask |-> cond.comet_mask[1]]
    ELSE [input_ids |-> gen]

\* lines 162-167: the dict of the is_xlnet mode, which replaces the one of lines 155-158
XLNetInputs(gen) ==
    LET input_ids == Append(gen[1], 0)
        S == Len(input_ids)
    IN  [input_ids |-> <<input_ids>>,
         perm_mask |-> <<PermMask(S)>>,
         target_mapping |-> <<<<TargetMapping(S)>>>>]

\* line 172: division of a logit by the temperature
Divide(x, temperature) ==
    IF temperature = 0
    THEN (IF x > 0 THEN PosInf ELSE IF x < 0 THEN NegInf ELSE NaN)
    ELSE x * temperature   \* temperature is 1 or -1

\* the operands of line 175 in the wrong order: the token goes in front
CatTokenInFront(gen, tok) == <<<<tok>> \o gen[1]>>

\* line 175: torch.cat((generated, next_token.unsqueeze(0)), dim=1) for one row
CatToken(gen, tok) == <<Append(gen[1], tok)>>

\* the ids torch.multinomial can draw: those of nonzero probability
Drawable(filtered) == {i \in DOMAIN filtered : filtered[i] # NegInf}

SamplerIdle ==
    /\ pc = "idle"
    /\ args = None
    /\ generated = <<>>
    /\ comet = [comet_input |-> <<>>, comet_mask |-> <<>>]
    /\ inputs = <<>>
    /\ modelCalls = 0
    /\ outputs = <<>>
    /\ next_token_logits = <<>>
    /\ filtered_logits = <<>>
    /\ next_token = <<>>
    /\ steps = 0
    /\ prev = <<>>
    /\ err = None
    /\ result = <<>>

\* the call: the arguments are bound, nothing has run
SamplerInit ==
    /\ pc = "start"
    /\ args \in [length : 0..MaxLength,
                 context : Contexts,
                 num_samples : -1..MaxSamples,
                 temperature : Temperatures,
                 top_k : SamplerTopKs,
                 top_p : SamplerTopPs,
                 is_xlnet : BOOLEAN,
                 conditioning : BOOLEAN]
    /\ generated = <<>>
    /\ comet = [comet_input |-> <<>>, comet_mask |-> <<>>]
    /\ inputs = <<>>
    /\ modelCalls = 0
    /\ outputs = <<>>
    /\ next_token_logits = <<>>
    /\ filtered_logits = <<>>
    /\ next_token = <<>>
    /\ steps = 0
    /\ prev = <<>>
    /\ err = None
    /\ result = <<>>

Raise(where) ==
    /\ pc' = "error"
    /\ err' = where

\* lines 142-152
Setup ==
    /\ pc = "start"
    /\ IF args.num_samples < 0
       THEN \* line 143: repeat() rejects a negative count
            /\ Raise("repeat")
            /\ UNCHANGED <<generated, comet>>
       ELSE /\ generated' = Replicate(args.context, args.num_samples)
            /\ comet' = IF args.conditioning
                        THEN \* lines 145-150
                             [comet_input |-> <<Replicate(CometInput, args.num_samples)>>,
                              comet_mask |-> <<Replicate(CometMask, args.num_samples)>>]
                        ELSE comet
            /\ pc' = "loop"
            /\ err' = None
    /\ UNCHANGED <<args, inputs, modelCalls, outputs, next_token_logits,
                   filtered_logits, next_token, steps, prev, result>>

\* lines 154-167: one more iteration starts and builds `inputs`.  The locals
\* outputs, next_token_logits, filtered_logits and next_token of the iteration
\* before are rebound before they are read again: they are cleared here.
Encode ==
    /\ pc = "loop"
    /\ steps < args.length
    /\ IF args.is_xlnet
       THEN IF Len(generated) # 1
            THEN \* line 162: torch.cat of (N, L) with (1, 1) along dim 1
                 /\ Raise("cat_input_ids")
                 /\ UNCHANGED inputs
            ELSE /\ inputs' = XLNetInputs(generated)
                 /\ pc' = "encoded"
                 /\ err' = None
       ELSE /\ inputs' = CausalInputs(generated, comet)
            /\ pc' = "encoded"
            /\ err' = None
    /\ outputs' = <<>>
    /\ next_token_logits' = <<>>
    /\ filtered_logits' = <<>>
    /\ next_token' = <<>>
    /\ UNCHANGED <<args, generated, comet, modelCalls, steps, prev, result>>

\* lines 169-172: the model is invoked; outputs[0] has one row per row of
\* input_ids and, per row, one position per input token (one position, the
\* target, with target_mapping)
Score ==
    /\ pc = "encoded"
    /\ modelCalls' = modelCalls + 1
    /\ LET batch == Len(inputs.input_ids)
           positions == IF batch = 0 THEN 0
                        ELSE IF args.is_xlnet THEN 1
                        ELSE Len(inputs.input_ids[1])
       IN  IF batch = 0 \/ positions = 0
           THEN \* line 172: outputs[0][0, -1, :] indexes an empty dimension
                /\ Raise("index")
                /\ UNCHANGED <<outputs, next_token_logits>>
           ELSE \E logits \in ModelLogits :
                /\ outputs' = logits
                /\ next_token_logits' =
                       [i \in DOMAIN logits |-> Divide(logits[i], args.temperature)]
                /\ pc' = "scored"
                /\ err' = None
    /\ UNCHANGED <<args, generated, comet, inputs, filtered_logits, next_token,
                   steps, prev, result>>

\* lines 173-175
Sample ==
    /\ pc = "scored"
    /\ IF args.temperature = 0
       THEN \* every entry of x / 0 is inf, -inf or nan, the softmax is nan
            \* throughout, and line 174's multinomial rejects it
            /\ Raise("multinomial")
            /\ UNCHANGED <<generated, next_token_logits, filtered_logits, next_token,
                           steps, prev>>
       ELSE \E sorted_indices \in SortOutcomes(next_token_logits, args.top_k, args.top_p) :
              LET filtered == top_k_top_p_filtering(next_token_logits, args.top_k,
                                                    args.top_p, sorted_indices)
              IN  /\ filtered_logits' = filtered
                  /\ next_token_logits' = filtered   \* the same tensor, filtered in place
                  /\ IF args.num_samples = 1
                     THEN \E i \in Drawable(filtered) :
                            /\ next_token' = <<i - 1>>
                            \* line 175: (1, L) cat (1, 1)
                            /\ generated' = CatToken(generated, i - 1)
                            /\ prev' = generated
                            /\ steps' = steps + 1
                            /\ pc' = "loop"
                            /\ err' = None
                     ELSE \* num_samples >= 2 draws without replacement
                          /\ \/ /\ args.num_samples > Cardinality(Drawable(filtered))
                                /\ Raise("multinomial")
                             \/ \* line 175: torch.cat of (N, L) with (1, N) along dim 1
                                /\ args.num_samples <= Len(filtered)
                                /\ Raise("cat_generated")
                          /\ UNCHANGED <<generated, next_token, steps, prev>>
    /\ UNCHANGED <<args, comet, inputs, modelCalls, outputs, result>>

\* line 176
Return ==
    /\ pc = "loop"
    /\ steps >= args.length
    /\ result' = generated
    /\ pc' = "done"
    /\ UNCHANGED <<args, generated, comet, inputs, modelCalls, outputs,
                   next_token_logits, filtered_logits, next_token, steps, prev, err>>

(***************************************************************************)
(* QGEvalCap.evaluate                                                      *)
(***************************************************************************)
\* lines 26-32: the scorers and their methods (a list of names for Bleu)
scorers ==
    <<[scorer |-> "Bleu", method |-> <<"Bleu_1", "Bleu_2", "Bleu_3", "Bleu_4">>],
      [scorer |-> "Meteor", method |-> <<"METEOR">>],
      [scorer |-> "Rouge", method |-> <<"ROUGE_L">>],
      [scorer |-> "Cider", method |-> <<"CIDEr">>],
      [scorer |-> "BertScore", method |-> <<"Bert Score">>]>>

\* what compute_score returns as `score`: one value per method name
ScoreValues == {0, 1}
Returns(i) == [1..Len(scorers[i].method) -> ScoreValues]

\* line 46: str(sc)
Str(sc) == [str |-> sc]

\* a line of the results file: json.dumps of a dict
Dumps(d) == [json |-> d]

model_key == "gpt2_for_anli"

\* lines 42-50: the dict after scorer i returned score
Record(d, i, score) ==
    LET method == scorers[i].method
    IN  [m \in DOMAIN d \cup Range(method) |->
            IF m \in Range(method)
            THEN LET j == CHOOSE j \in DOMAIN method : method[j] = m
                 IN  IF i = 1 THEN Str(score[j]) ELSE score[j]
            ELSE d[m]]

EvalIdle ==
    /\ e_pc = "idle"
    /\ e_idx = 0
    /\ e_outcomes = <<>>
    /\ scores_dict = <<>>
    /\ output = <<>>
    /\ results_file = <<>>
    /\ e_returned = <<>>

\* the call: the results file holds what earlier calls appended
EvalInit ==
    /\ e_pc = "start"
    /\ e_idx = 0
    /\ e_outcomes = <<>>
    /\ scores_dict = <<>>
    /\ output = <<>>
    /\ results_file \in UNION {[1..n -> {Dumps([model_key |-> "earlier"])}] : n \in 0..MaxPriorLines}
    /\ e_returned = <<>>

\* lines 25-38
EvalBegin ==
    /\ e_pc = "start"
    /\ output' = <<>>
    /\ scores_dict' = [k \in {"model_key"} |-> model_key]
    /\ e_idx' = 1
    /\ e_pc' = "scoring"
    /\ UNCHANGED <<e_outcomes, results_file, e_returned>>

\* lines 39-50: one iteration of the for loop; compute_score returns or raises
ScoreOne ==
    /\ e_pc = "scoring"
    /\ e_idx <= Len(scorers)
    /\ \/ \E score \in Returns(e_idx) :
            /\ output' = output \o score
            /\ scores_dict' = Record(scores_dict, e_idx, score)
            /\ e_outcomes' = Append(e_outcomes, "ok")
            /\ e_idx' = e_idx + 1
            /\ UNCHANGED e_pc
       \/ \* line 41 raises: nothing in evaluate catches it
          /\ e_outcomes' = Append(e_outcomes, "raised")
          /\ e_pc' = "raised"
          /\ UNCHANGED <<output, scores_dict, e_idx>>
    /\ UNCHANGED <<results_file, e_returned>>

\* lines 52-55
WriteAndReturn ==
    /\ e_pc = "scoring"
    /\ e_idx > Len(scorers)
    /\ results_file' = Append(results_file, Dumps(scores_dict))
    /\ e_returned' = <<output>>
    /\ e_pc' = "done"
    /\ UNCHANGED <<e_idx, e_outcomes, scores_dict, output>>

Init == SamplerInit /\ FilterIdle /\ EvalIdle

Next ==
    \/ Setup /\ UNCHANGED <<filter_vars, eval_vars>>
    \/ Encode /\ UNCHANGED <<filter_vars, eval_vars>>
    \/ Score /\ UNCHANGED <<filter_vars, eval_vars>>
    \/ Sample /\ UNCHANGED <<filter_vars, eval_vars>>
    \/ Return /\ UNCHANGED <<filter_vars, eval_vars>>

Spec == Init /\ [][Next]_vars

FilterNext == FilterCall /\ UNCHANGED <<sampler_vars, eval_vars>>

FilterSpecInit == SamplerIdle /\ FilterInit /\ EvalIdle

FilterSpec == FilterSpecInit /\ [][FilterNext]_vars
EvalNext ==
    \/ EvalBegin /\ UNCHANGED <<sampler_vars, filter_vars>>
    \/ ScoreOne /\ UNCHANGED <<sampler_vars, filter_vars>>
    \/ WriteAndReturn /\ UNCHANGED <<sampler_vars, filter_vars>>

EvalSpecInit == SamplerIdle /\ FilterIdle /\ EvalInit

EvalSpec == EvalSpecInit /\ [][EvalNext]_vars

(***************************************************************************)
(* Properties of sample_sequence, checked under Spec.                      *)
(***************************************************************************)
Finished == pc \in {"done", "error"}

\* a call within the documented preconditions
WellFormedCall ==
    args.num_samples >= 1 /\ args.context # <<>> /\ args.temperature > 0

\* C1: for every num_samples >= 1, every non-empty context and every
\* length >= 0 (and a positive temperature), the call completes and returns
\* num_samples sequences, each of length len(context) + length.
C1_ReturnsNSequences ==
    (Finished /\ WellFormedCall)
    => /\ pc = "done"
       /\ Len(result) = args.num_samples
       /\ \A r \in DOMAIN result : Len(result[r]) = Len(args.context) + args.length

PreconditionViolated ==
    args.temperature <= 0 \/ args.context = <<>> \/ args.num_samples < 1

\* C2: a call that violates a precondition (temperature <= 0, empty context,
\* num_samples < 1) and asks for at least one token never invokes the scoring
\* model and never returns.
C2_AbortsBeforeSampling ==
    (PreconditionViolated /\ args.length >= 1) => (modelCalls = 0 /\ pc # "done")

\* C3: when comet_input and comet_mask are supplied, the input the scoring
\* model is invoked with holds both fields, as replicated by the setup, in
\* both modes.
C3_ConditioningReachesModel ==
    (args.conditioning /\ WellFormedCall /\ pc = "scored")
    => /\ {"comet_input", "comet_mask"} \subseteq DOMAIN inputs
       /\ inputs.comet_input = comet.comet_input[1]
       /\ inputs.comet_mask = comet.comet_mask[1]

\* C5: in is_xlnet mode the input of every step is the current sequence plus
\* one placeholder token; the mask is square of side seq_len + 1 and every row
\* has exactly one masked cell, in the last column; the target map has exactly
\* one 1, at the last column.
C5_PermutationInput ==
    (args.is_xlnet /\ pc \in {"encoded", "scored"})
    => LET S == Len(generated[1]) + 1
           ids == inputs.input_ids
           mask == inputs.perm_mask[1]
           target == inputs.target_mapping[1][1]
       IN  /\ Len(ids) = 1
           /\ Len(ids[1]) = S
           /\ \A c \in 1..(S - 1) : ids[1][c] = generated[1][c]
           /\ Len(mask) = S
           /\ \A r \in 1..S :
                /\ Len(mask[r]) = S
                /\ {c \in 1..S : mask[r][c] # 0} = {S}
           /\ Len(target) = S
           /\ {c \in 1..S : target[c] = 1} = {S}
           /\ \A c \in 1..(S - 1) : target[c] = 0

C5_Witness ==
    /\ args.is_xlnet
    /\ pc = "scored"
    /\ steps = 1
    /\ Len(generated[1]) = 2
    /\ Len(inputs.perm_mask[1]) = 3

C6_DisabledIsIdentity ==
    (f_calls = 1 /\ f_top_k = 0 /\ f_top_p = 0)
    => /\ Len(f_out) = Len(f_logits)
       /\ \A i \in DOMAIN f_logits : f_out[i] = f_logits[i]

C6_Witness ==
    /\ f_calls = 1 /\ f_top_k = 0 /\ f_top_p = 0
    /\ Len(f_logits) = 3
    /\ f_logits[1] < f_logits[2] /\ f_logits[3] < f_logits[2]
    /\ f_out = f_logits

\* C7: for a non-empty score vector and any top_p > 0 the nucleus stage leaves
\* an entry unsuppressed, and an entry with the highest score is among the kept.
C7_NucleusKeepsTop ==
    (f_calls = 1 /\ f_top_p > 0)
    => \E i \in DOMAIN f_logits :
          /\ \A j \in DOMAIN f_logits : f_logits[j] <= f_logits[i]
          /\ i \notin f_removed
          /\ f_out[i] # NegInf
          /\ f_out[i] = f_logits[i]

C7_Witness ==
    /\ f_calls = 1 /\ f_top_p = 1 /\ f_top_k = 0
    /\ Len(f_logits) = 3
    /\ Cardinality(f_removed) = 2
    /\ Cardinality({i \in DOMAIN f_out : f_out[i] # NegInf}) = 1

\* how many entries of s are at least (greater than) v
CountGeq(s, v) == Cardinality({i \in DOMAIN s : s[i] >= v})
CountGt(s, v) == Cardinality({i \in DOMAIN s : s[i] > v})

\* C9: for top_k > 0 and top_p = 0, with k = min(top_k, vocab_size), the output
\* has the input's length, an entry is -inf exactly when its input is strictly
\* below the k-th largest score, every other entry is its input, at least k
\* entries are kept, and nothing is suppressed when k is the vocabulary size.
C9_TopKThreshold ==
    (f_calls = 1 /\ f_top_k > 0 /\ f_top_p = 0)
    => LET n == Len(f_logits)
           k == IF f_top_k < n THEN f_top_k ELSE n
           kth == CHOOSE v \in Range(f_logits) :
                      CountGt(f_logits, v) < k /\ k <= CountGeq(f_logits, v)
       IN  /\ Len(f_out) = n
           /\ \A i \in 1..n :
                /\ (f_out[i] = NegInf) <=> (f_logits[i] < kth)
                /\ f_out[i] # NegInf => f_out[i] = f_logits[i]
           /\ Cardinality({i \in 1..n : f_out[i] # NegInf}) >= k
           /\ k = n => f_out = f_logits

C9_Witness ==
    /\ f_calls = 1 /\ f_top_k = 1 /\ f_top_p = 0
    /\ Len(f_logits) = 3
    /\ Cardinality({i \in 1..3 : f_out[i] # NegInf}) = 2
    /\ Cardinality({i \in 1..3 : f_out[i] = NegInf}) = 1

Succeeded == UNION {Range(scorers[i].method) :
                       i \in {i \in DOMAIN e_outcomes : e_outcomes[i] = "ok"}}

\* C4: when evaluate ends, compute_score of every scorer has been called
\* whatever the others did, and the results file has gained a line with the
\* metrics of every scorer that returned.
C4_ScorersIndependent ==
    e_pc \in {"done", "raised"}
    => /\ Len(e_outcomes) = Len(scorers)
       /\ \E n \in DOMAIN results_file :
            /\ results_file[n].json.model_key = model_key
            /\ Succeeded \subseteq DOMAIN results_file[n].json

(***************************************************************************)
(* The growth of `generated`, checked under Spec.                          *)
(***************************************************************************)
\* row r of `after` is row r of `before` with one token appended
OneLonger(before, after) ==
    /\ Len(after) = Len(before)
    /\ \A r \in DOMAIN before :
         /\ Len(after[r]) = Len(before[r]) + 1
         /\ SubSeq(after[r], 1, Len(before[r])) = before[r]

\* C11: the generated sequence starts as the (replicated) context and then
\* changes only by append: a step leaves it exactly one token longer, with the
\* sequence from before the step as its unchanged prefix, and nothing else
\* changes it.
C11_AppendOnly ==
    [][/\ pc = "start" /\ pc' = "loop"
          => generated' = [r \in 1..args.num_samples |-> args.context]
       /\ pc # "start" /\ steps' = steps => generated' = generated
       /\ steps' # steps => steps' = steps + 1 /\ OneLonger(generated, generated')]_vars

C11_Witness ==
    /\ pc = "loop"
    /\ steps = 2
    /\ args.context = <<1>>
    /\ generated = <<<<1, 0, 1>>>>
    /\ prev = <<<<1, 0>>>>
====
